---- MODULE Spec2Model ----
(***************************************************************************)
(* A model of 03-buttons/bydariogamer/utils.py: the memoised asset         *)
(* helpers load_image, font and text, the centred blit, and the nine-patch *)
(* compositor.                                                             *)
(*                                                                         *)
(* Objects (surfaces, fonts) are records; the field gen numbers the        *)
(* executions of a function body for one argument tuple, so two records    *)
(* are equal exactly when they are the same object.                        *)
(***************************************************************************)
EXTENDS Integers, Sequences, FiniteSets, TLC

VARIABLES
    fs,               \* the files that exist on disk
    image_cache,      \* lru_cache of load_image: <<key, object>> pairs, most recent first
    font_cache,       \* lru_cache of font
    text_cache,       \* lru_cache of text
    ninepatch_cache,  \* lru_cache of ninepatch
    calls,            \* per function: key -> completed executions of the body
    hist,             \* per function: key -> the objects the latest successful call returned
    used,             \* per function: every key ever used successfully, most recent first
    ret,              \* the outcome of the latest call
    trace,            \* what the latest ninepatch body asked of pygame
    screen            \* the destination surface of blit_centered

vars == <<fs, image_cache, font_cache, text_cache, ninepatch_cache,
          calls, hist, used, ret, trace, screen>>

----------------------------------------------------------------------------
(* Bounds of the model.                                                    *)

\* The four cache capacities, scaled down: the code's are 128 (the default
\* of lru_cache(), lines 24 and 52), 5000 (line 70) and 100 (line 80).
ImageCacheSize == 2
FontCacheSize == 2
TextCacheSize == 2
NinepatchCacheSize == 2

\* How often the body of one function may run for one argument tuple.
MaxGen == 2

\* How many bodies may run in all when the three helpers run together.
MaxRuns == 5

\* How many different compositions may succeed when every target size is tried.
MaxComposed == 2

----------------------------------------------------------------------------
(* functools.lru_cache, as the decorators of lines 24, 52, 70, 80 use it.  *)

Keys(c) == {c[i][1] : i \in 1..Len(c)}

Cached(c, k) == c[CHOOSE i \in 1..Len(c) : c[i][1] = k][2]

Without(s, k) == SelectSeq(s, LAMBDA e : e # k)

WithoutKey(c, k) == SelectSeq(c, LAMBDA e : e[1] # k)

\* A hit: the entry becomes the most recently used one.
LruHitStale(c, k) == c

LruHit(c, k) == <<<<k, Cached(c, k)>>>> \o WithoutKey(c, k)

\* A miss whose body returned v: the entry is inserted as the most recent one,
\* and a full cache first drops its least recently used entry.
LruInsertUnbounded(c, k, v, maxsize) == <<<<k, v>>>> \o c

LruInsert(c, k, v, maxsize) ==
    IF Len(c) >= maxsize
    THEN <<<<k, v>>>> \o SubSeq(c, 1, Len(c) - 1)
    ELSE <<<<k, v>>>> \o c

\* A miss whose body raised: the exception leaves the wrapper, nothing is stored.
LruRaiseStored(c, k, e) == <<<<k, e>>>> \o c

LruRaise(c, k, e) == c

\* The ghost record of uses: k becomes the most recent key.
Touch(s, k) == <<k>> \o Without(s, k)

\* The ghost maps hold the keys used so far.
Empty == [k \in {} |-> 0]

Get(m, k, default) == IF k \in DOMAIN m THEN m[k] ELSE default

Put(m, k, v) == [x \in DOMAIN m \cup {k} |-> IF x = k THEN v ELSE m[x]]

\* How often the body of fn has run for k, and what the latest successful
\* call of fn with k returned.
Count(fn, k) == Get(calls[fn], k, 0)

Last(fn, k) == Get(hist[fn], k, {})

\* The wrapper of lru_cache around one call: a hit returns the stored object
\* without running the body; a miss runs the body (outcome out) and stores
\* what it returned.
Memo(c, k, maxsize, out) ==
    IF k \in Keys(c)
    THEN [cache |-> LruHit(c, k), hit |-> TRUE,
          out |-> [kind |-> "ok", val |-> Cached(c, k)]]
    ELSE [cache |-> IF out.kind = "ok"
                    THEN LruInsert(c, k, out.val, maxsize)
                    ELSE LruRaise(c, k, out.val),
          hit |-> FALSE, out |-> out]

Ok(v) == [kind |-> "ok", val |-> v]

Raise(e) == [kind |-> "raise", val |-> [exc |-> e]]

----------------------------------------------------------------------------
(* The files and the arguments the model calls the helpers with.           *)

ASSETS == "ASSETS"

SUBMISSION_DIR == "SUBMISSION_DIR"

WCLIB_ASSETS == "ROOT_DIR/wclib/assets"

\* The files that come and go while the program runs; the others stay.
Volatile == {<<ASSETS, "a", "png">>, <<WCLIB_ASSETS, "title", "ttf">>}

Permanent == {<<ASSETS, "b", "png">>, <<WCLIB_ASSETS, "regular", "ttf">>,
              <<SUBMISSION_DIR, "mine", "ttf">>}

\* The pixel size of each image file.
PngSize(name) == IF name = "a" THEN <<4, 6>> ELSE <<3, 3>>

\* A scale factor is a fraction <<numerator, denominator>>.
One == <<1, 1>>

\* load_image(name, scale, alpha, base)
ImageKeys ==
    {<<"a", One, TRUE, ASSETS>>, <<"b", One, TRUE, ASSETS>>,
     <<"a", <<1, 2>>, FALSE, ASSETS>>, <<"c", One, TRUE, SUBMISSION_DIR>>}

\* A font name: None, a string, or a Path.
NoName == [kind |-> "none", v |-> <<>>]

Str(s) == [kind |-> "str", v |-> <<s>>]

Path(p) == [kind |-> "path", v |-> p]

\* font(size, name)
FontKeys ==
    {<<20, NoName>>, <<20, Str("title")>>,
     <<20, Path(<<SUBMISSION_DIR, "mine", "ttf">>)>>}

\* A text to render: a string, or a number that str() turns into one.
Txt(t, v) == [t |-> t, v |-> v]

\* text(txt, color, size, font_name)
TextKeys ==
    {<<Txt("str", "1"), "red", 20, NoName>>,
     <<Txt("int", "1"), "red", 20, NoName>>,
     <<Txt("str", "go"), "red", 20, Str("title")>>,
     <<Txt("str", "go"), "red", 20, Path(<<SUBMISSION_DIR, "mine", "ttf">>)>>}

----------------------------------------------------------------------------
(* load_image, font, text                                                  *)

\* The body of load_image (lines 41-49).
load_image_body(k) ==
    LET name == k[1]
        scale == k[2]
        alpha == k[3]
        base == k[4]
        image == PngSize(name)
        new_size == <<(image[1] * scale[1]) \div scale[2],
                      (image[2] * scale[1]) \div scale[2]>>
        size == IF scale # One THEN new_size ELSE image
    IN  IF <<base, name, "png">> \notin fs
        THEN Raise("FileNotFoundError")
        ELSE Ok([fn |-> "load_image", key |-> k,
                 gen |-> Count("load_image", k) + 1,
                 w |-> size[1], h |-> size[2], alpha |-> alpha])

\* The path font() opens (lines 62-66).
font_path(name) ==
    LET n == IF name.kind = "none" \/ name.v = <<"">> THEN Str("regular") ELSE name
    IN  IF n.kind = "path" THEN n.v ELSE <<WCLIB_ASSETS, n.v[1], "ttf">>

\* The body of font (lines 62-67).
font_body(k) ==
    IF font_path(k[2]) \notin fs
    THEN Raise("FileNotFoundError")
    ELSE Ok([fn |-> "font", key |-> k, gen |-> Count("font", k) + 1,
             path |-> font_path(k[2]), size |-> k[1]])

\* str(txt)
str(txt) == txt.v

\* The call font(size, font_name) that the body of text makes (line 73).
font_of_text(k) == Memo(font_cache, <<k[3], k[4]>>, FontCacheSize, font_body(<<k[3], k[4]>>))

\* The body of text (line 73): the font's failure is the body's failure.
text_body(k) ==
    LET f == font_of_text(k)
    IN  IF f.out.kind = "raise"
        THEN f.out
        ELSE Ok([fn |-> "text", key |-> k, gen |-> Count("text", k) + 1,
                 font |-> f.out.val, txt |-> str(k[1]), color |-> k[2]])

\* No request: the latest call did not run the body of ninepatch.
NoTrace == [size |-> <<>>, regions |-> <<>>, scales |-> <<>>, blits |-> <<>>]

\* The ghost variables after a call of fn with key k that ended as m.
Counted(cs, fn, k, m) ==
    IF m.hit \/ m.out.kind = "raise" THEN cs
    ELSE [cs EXCEPT ![fn] = Put(@, k, Get(@, k, 0) + 1)]

Recorded(hs, fn, k, m) ==
    IF m.out.kind = "raise" THEN hs ELSE [hs EXCEPT ![fn] = Put(@, k, {m.out.val})]

Touched(us, fn, k, m) ==
    IF m.out.kind = "raise" THEN us ELSE [us EXCEPT ![fn] = Touch(@, k)]

Returned(fn, k, m) ==
    [fn |-> fn, key |-> k, kind |-> m.out.kind, val |-> m.out.val,
     hit |-> m.hit, prev |-> Last(fn, k)]

\* A body may run while its counter of executions is below the bound.
MayRun(fn, k, c) == k \in Keys(c) \/ Count(fn, k) < MaxGen

load_image(k) ==
    LET m == Memo(image_cache, k, ImageCacheSize, load_image_body(k))
    IN  /\ MayRun("load_image", k, image_cache)
        /\ image_cache' = m.cache
        /\ calls' = Counted(calls, "load_image", k, m)
        /\ hist' = Recorded(hist, "load_image", k, m)
        /\ used' = Touched(used, "load_image", k, m)
        /\ ret' = Returned("load_image", k, m)
        /\ UNCHANGED <<fs, font_cache, text_cache, ninepatch_cache, trace, screen>>

font(k) ==
    LET m == Memo(font_cache, k, FontCacheSize, font_body(k))
    IN  /\ MayRun("font", k, font_cache)
        /\ font_cache' = m.cache
        /\ calls' = Counted(calls, "font", k, m)
        /\ hist' = Recorded(hist, "font", k, m)
        /\ used' = Touched(used, "font", k, m)
        /\ ret' = Returned("font", k, m)
        /\ UNCHANGED <<fs, image_cache, text_cache, ninepatch_cache, trace, screen>>

text(k) ==
    LET m == Memo(text_cache, k, TextCacheSize, text_body(k))
        fk == <<k[3], k[4]>>
        f == font_of_text(k)
    IN  /\ MayRun("text", k, text_cache)
        /\ k \in Keys(text_cache) \/ MayRun("font", fk, font_cache)
        /\ text_cache' = m.cache
        /\ ret' = Returned("text", k, m)
        /\ IF m.hit
           THEN /\ font_cache' = font_cache
                /\ calls' = calls
                /\ hist' = Recorded(hist, "text", k, m)
                /\ used' = Touched(used, "text", k, m)
           ELSE /\ font_cache' = f.cache
                /\ calls' = Counted(Counted(calls, "font", fk, f), "text", k, m)
                /\ hist' = Recorded(Recorded(hist, "font", fk, f), "text", k, m)
                /\ used' = Touched(Touched(used, "font", fk, f), "text", k, m)
        /\ UNCHANGED <<fs, image_cache, ninepatch_cache, trace, screen>>

\* The environment: an asset file appears or disappears.
FileCreated(f) ==
    /\ f \notin fs
    /\ fs' = fs \cup {f}
    /\ UNCHANGED <<image_cache, font_cache, text_cache, ninepatch_cache,
                   calls, hist, used, ret, trace, screen>>

FileDeleted(f) ==
    /\ f \in fs
    /\ fs' = fs \ {f}
    /\ UNCHANGED <<image_cache, font_cache, text_cache, ninepatch_cache,
                   calls, hist, used, ret, trace, screen>>

----------------------------------------------------------------------------
(* Surfaces and the pygame calls of ninepatch                              *)

\* The transparent pixel of a fresh SRCALPHA surface.
Transparent == <<"", 0, 0>>

Area(w, h) == (0..(w - 1)) \X (0..(h - 1))

\* The surface load_image returned for file name, unscaled: an object with an
\* identity of its own (gen), whose pixels are those of the file.
Loaded(name, gen) ==
    [fn |-> "load_image", key |-> <<name, One, TRUE, ASSETS>>, gen |-> gen,
     w |-> PngSize(name)[1], h |-> PngSize(name)[2], alpha |-> TRUE]

\* The pixels of a loaded surface: every pixel of a file is distinct.
Pixels(surface) ==
    [w |-> surface.w, h |-> surface.h,
     px |-> [p \in Area(surface.w, surface.h) |-> <<surface.key[1], p[1], p[2]>>]]

\* pygame.Surface(size, SRCALPHA) (line 83).
NewSurfaceSwapped(size) ==
    [w |-> size[2], h |-> size[1], px |-> [p \in Area(size[2], size[1]) |-> Transparent]]

NewSurface(size) ==
    [w |-> size[1], h |-> size[2], px |-> [p \in Area(size[1], size[2]) |-> Transparent]]

\* surface.subsurface(x, y, w, h) (lines 86-94).
subsurface_at_origin(s, r) ==
    [w |-> r[3], h |-> r[4], px |-> [p \in Area(r[3], r[4]) |-> s.px[<<p[1], p[2]>>]]]

subsurface(s, r) ==
    [w |-> r[3], h |-> r[4],
     px |-> [p \in Area(r[3], r[4]) |-> s.px[<<r[1] + p[1], r[2] + p[2]>>]]]

\* Whether pygame.transform.scale accepts the size: a negative one raises
\* ValueError.
scale_accepts_any(size) == TRUE

scale_accepts(size) == size[1] >= 0 /\ size[2] >= 0

\* pygame.transform.scale(s, size) for an accepted size: every pixel of the
\* result is the source pixel at the proportional place.
scale(s, size) ==
    LET w == IF size[1] < 0 THEN 0 ELSE size[1]
        h == IF size[2] < 0 THEN 0 ELSE size[2]
    IN  [w |-> w, h |-> h,
         px |-> [p \in Area(w, h) |-> s.px[<<(p[1] * s.w) \div w, (p[2] * s.h) \div h>>]]]

\* dest.blit(src, at): src is drawn where it meets dest; the rest is clipped.
\* On the transparent pixels of a fresh surface the drawn pixel is src's own.
blit(dest, src, at) ==
    [dest EXCEPT !.px =
        [p \in Area(dest.w, dest.h) |->
            IF /\ at[1] <= p[1] /\ p[1] < at[1] + src.w
               /\ at[2] <= p[2] /\ p[2] < at[2] + src.h
            THEN src.px[<<p[1] - at[1], p[2] - at[2]>>]
            ELSE dest.px[p]]]

----------------------------------------------------------------------------
(* ninepatch                                                               *)

\* pygame.Rect(rect) (line 82): rect is the tuple (x, y, w, h).
Rect(rect) == [x |-> rect[1], y |-> rect[2], w |-> rect[3], h |-> rect[4]]

\* Lines 84-85.
subsurf_w_rounded_up(surface) == (surface.w + 2) \div 3

subsurf_w(surface) == surface.w \div 3

subsurf_h(surface) == surface.h \div 3

\* The nine pieces in the order of lines 86-94 and 96-113: the region of the
\* source, whether it is scaled and to what size, and where it is blitted.
Piece(region, scaled, size, at) ==
    [region |-> region, scaled |-> scaled, size |-> size, at |-> at]

Pieces(surface, rect) ==
    LET sw == subsurf_w(surface)
        sh == subsurf_h(surface)
        w == rect.w
        h == rect.h
    IN  << Piece(<<0, 0, sw, sh>>, FALSE, <<sw, sh>>, <<0, 0>>),
           Piece(<<sw, 0, sw, sh>>, TRUE, <<w - 2 * sw, sh>>, <<sw, 0>>),
           Piece(<<2 * sw, 0, sw, sh>>, FALSE, <<sw, sh>>, <<w - sw, 0>>),
           Piece(<<0, sh, sw, sh>>, TRUE, <<sw, h - 2 * sh>>, <<0, sh>>),
           Piece(<<sw, sh, sw, sh>>, TRUE, <<w - 2 * sw, h - 2 * sh>>, <<sw, sh>>),
           Piece(<<2 * sw, sh, sw, sh>>, TRUE, <<sw, h - 2 * sh>>, <<w - sw, sh>>),
           Piece(<<0, 2 * sh, sw, sh>>, FALSE, <<sw, sh>>, <<0, h - sh>>),
           Piece(<<sw, 2 * sh, sw, sh>>, TRUE, <<w - 2 * sw, sh>>, <<sw, h - sh>>),
           Piece(<<2 * sw, 2 * sh, sw, sh>>, FALSE, <<sw, sh>>, <<w - sw, h - sh>>) >>

\* The first piece whose scale request pygame refuses, or 10 when there is none.
FirstRefused(ps) ==
    LET bad == {i \in 1..9 : ps[i].scaled /\ ~scale_accepts(ps[i].size)}
    IN  IF bad = {} THEN 10 ELSE CHOOSE i \in bad : \A j \in bad : i <= j

\* result after the blits of pieces i..n (lines 96-113).
RECURSIVE Composite(_, _, _, _, _)
Composite(result, source, ps, i, n) ==
    IF i > n THEN result
    ELSE LET region == subsurface(source, ps[i].region)
             piece == IF ps[i].scaled THEN scale(region, ps[i].size) ELSE region
         IN  Composite(blit(result, piece, ps[i].at), source, ps, i + 1, n)

\* What the body asks of pygame: the surface it allocates, the nine regions it
\* takes, the scale requests up to the first refused one, the rectangles it
\* blits into before that.
ninepatch_trace(k) ==
    LET rect == Rect(k[2])
        ps == Pieces(k[1], rect)
        f == FirstRefused(ps)
        upto == {i \in 1..9 : i <= f}
        before == {i \in 1..9 : i < f}
    IN  [size |-> <<rect.w, rect.h>>,
         regions |-> [i \in 1..9 |-> ps[i].region],
         scales |-> [i \in {j \in upto : ps[j].scaled} |-> ps[i].size],
         blits |-> [i \in before |-> <<ps[i].at[1], ps[i].at[2], ps[i].size[1], ps[i].size[2]>>]]

\* The body of ninepatch (lines 82-115).
ninepatch_body(k) ==
    LET surface == k[1]
        rect == Rect(k[2])
        ps == Pieces(surface, rect)
        f == FirstRefused(ps)
        result == Composite(NewSurface(<<rect.w, rect.h>>), Pixels(surface), ps, 1, 9)
    IN  IF f <= 9
        THEN Raise("ValueError")
        ELSE Ok([fn |-> "ninepatch", key |-> k, gen |-> Count("ninepatch", k) + 1,
                 w |-> result.w, h |-> result.h, px |-> result.px])

ninepatch(k) ==
    LET m == Memo(ninepatch_cache, k, NinepatchCacheSize, ninepatch_body(k))
    IN  /\ MayRun("ninepatch", k, ninepatch_cache)
        /\ ninepatch_cache' = m.cache
        /\ calls' = Counted(calls, "ninepatch", k, m)
        /\ hist' = Recorded(hist, "ninepatch", k, m)
        /\ used' = Touched(used, "ninepatch", k, m)
        /\ ret' = Returned("ninepatch", k, m)
        /\ trace' = IF m.hit THEN NoTrace ELSE ninepatch_trace(k)
        /\ UNCHANGED <<fs, image_cache, font_cache, text_cache, screen>>

----------------------------------------------------------------------------
(* blit_centered                                                           *)

\* rect.center of a pygame Rect.
center(rect) == <<rect.x + rect.w \div 2, rect.y + rect.h \div 2>>

\* surface.get_rect(center=c): the rectangle of the surface's size whose
\* centre is c.
get_rect_topleft_at(surface, c) == [x |-> c[1], y |-> c[2], w |-> surface.w, h |-> surface.h]

get_rect(surface, c) ==
    [x |-> c[1] - surface.w \div 2, y |-> c[2] - surface.h \div 2,
     w |-> surface.w, h |-> surface.h]

\* An image to draw: its name and size; every pixel of it is distinct.
Image(name, w, h) == [key |-> <<name>>, w |-> w, h |-> h]

\* blit_centered(screen, surface, rect) (lines 76-77). The arguments are left
\* as they were: val holds them as they are after the call.
blit_centered(surface, rect) ==
    LET dest == get_rect(surface, center(Rect(rect)))
    IN  /\ screen' = blit(screen, Pixels(surface), <<dest.x, dest.y>>)
        /\ trace' = [NoTrace EXCEPT !.blits = << <<dest.x, dest.y, dest.w, dest.h>> >>]
        /\ ret' = [fn |-> "blit_centered", key |-> <<surface, rect>>, kind |-> "ok",
                   val |-> <<surface, rect>>, hit |-> FALSE, prev |-> {}]
        /\ UNCHANGED <<fs, image_cache, font_cache, text_cache, ninepatch_cache,
                       calls, hist, used>>

----------------------------------------------------------------------------
(* The specifications                                                      *)

NoCall ==
    [fn |-> "none", key |-> <<>>, kind |-> "none", val |-> <<>>,
     hit |-> FALSE, prev |-> {}]

\* The source the compositor is tried on: 4 by 6 pixels, a width that is no
\* multiple of 3 and a height that is one.
Sources == {Loaded("a", 1)}

\* The target sizes of the compositor.
MaxW == 3

MaxH == 5

ComposeKeys == {<<s, <<0, 0, w, h>>>> : s \in Sources, w \in 0..MaxW, h \in 0..MaxH}

\* The calls that exercise the cache of ninepatch: one size at two positions,
\* another size, a size too small for the corners, another object with the
\* pixels of the first.
CacheKeys ==
    {<<Loaded("b", 1), <<0, 0, 4, 4>>>>, <<Loaded("b", 1), <<7, 2, 4, 4>>>>,
     <<Loaded("b", 1), <<0, 0, 5, 3>>>>, <<Loaded("b", 1), <<0, 0, 1, 4>>>>,
     <<Loaded("b", 2), <<0, 0, 4, 4>>>>}

\* The size of the destination surface of blit_centered.
ScreenW == 6

ScreenH == 5

\* The images and target rectangles of blit_centered.
Images == {Image("big", 10, 10), Image("odd", 3, 2), Image("dot", 1, 1)}

Rects == {<<40, 40, 20, 20>>, <<0, 0, 5, 4>>, <<2, 1, 3, 3>>, <<-3, 0, 2, 2>>, <<0, 0, 8, 5>>}

Init ==
    /\ fs \in {Permanent \cup v : v \in SUBSET Volatile}
    /\ image_cache = <<>>
    /\ font_cache = <<>>
    /\ text_cache = <<>>
    /\ ninepatch_cache = <<>>
    /\ calls = [load_image |-> Empty, font |-> Empty, text |-> Empty, ninepatch |-> Empty]
    /\ hist = [load_image |-> Empty, font |-> Empty, text |-> Empty, ninepatch |-> Empty]
    /\ used = [load_image |-> <<>>, font |-> <<>>, text |-> <<>>, ninepatch |-> <<>>]
    /\ ret = NoCall
    /\ trace = NoTrace
    /\ screen = NewSurface(<<ScreenW, ScreenH>>)

RECURSIVE Sum(_, _)
Sum(f, S) ==
    IF S = {} THEN 0
    ELSE LET x == CHOOSE y \in S : TRUE IN f[x] + Sum(f, S \ {x})

\* The bodies run so far.
Runs ==
    Sum(calls.load_image, DOMAIN calls.load_image) + Sum(calls.font, DOMAIN calls.font)
        + Sum(calls.text, DOMAIN calls.text)

\* The three asset helpers together, with asset files coming and going, for
\* as long as fewer than MaxRuns bodies have run.
NextAssets ==
    \/ \E k \in ImageKeys : Runs < MaxRuns /\ load_image(k)
    \/ \E k \in FontKeys : Runs < MaxRuns /\ font(k)
    \/ \E k \in TextKeys : Runs < MaxRuns /\ text(k)
    \/ \E f \in Volatile : Runs < MaxRuns /\ FileCreated(f)
    \/ \E f \in Volatile : Runs < MaxRuns /\ FileDeleted(f)

SpecAssets == Init /\ [][NextAssets]_vars

\* load_image and font, with asset files coming and going.
NextLoaders ==
    \/ \E k \in ImageKeys : load_image(k)
    \/ \E k \in FontKeys : font(k)
    \/ \E f \in Volatile : FileCreated(f)
    \/ \E f \in Volatile : FileDeleted(f)

SpecLoaders == Init /\ [][NextLoaders]_vars

\* text and the font calls it makes, with font files coming and going.
NextText ==
    \/ \E k \in TextKeys : text(k)
    \/ \E f \in Volatile : FileCreated(f)
    \/ \E f \in Volatile : FileDeleted(f)

SpecText == Init /\ [][NextText]_vars

\* The cache of ninepatch.
NextNine == \E k \in CacheKeys : ninepatch(k)

SpecNine == Init /\ [][NextNine]_vars

\* The compositor over every source and target size, until MaxComposed
\* different calls have succeeded.
NextCompose ==
    \E k \in ComposeKeys : Len(used.ninepatch) < MaxComposed /\ ninepatch(k)

SpecCompose == Init /\ [][NextCompose]_vars

\* Centred blits onto the screen.
NextBlit == \E surface \in Images, rect \in Rects : blit_centered(surface, rect)

SpecBlit == Init /\ [][NextBlit]_vars

----------------------------------------------------------------------------
(* The memoised asset helpers: claims C2, C3, C8                           *)

\* The first n elements of s, or all of s when it is shorter.
Take(s, n) == SubSeq(s, 1, IF Len(s) < n THEN Len(s) ELSE n)

KeysInOrder(c) == [i \in 1..Len(c) |-> c[i][1]]

\* C2: a call of load_image, font or text with the arguments of an earlier
\* successful call returns the very object that earlier call returned.
C2_SameObjectAsEarlierCall ==
    (ret.fn \in {"load_image", "font", "text"} /\ ret.kind = "ok" /\ ret.prev # {})
        => ret.val \in ret.prev

\* C3: the text cache never holds more than its capacity, and it holds exactly
\* the most recently used keys, where a key is used when it is inserted and
\* whenever it is hit: an insertion into a full cache evicts the least recently
\* used entry and no other.
C3_TextCacheIsLru ==
    /\ Len(text_cache) <= TextCacheSize
    /\ KeysInOrder(text_cache) = Take(used.text, TextCacheSize)
    /\ \A i \in 1..Len(text_cache) : Last("text", text_cache[i][1]) = {text_cache[i][2]}

\* A text call has just inserted an entry into a full cache, which evicted
\* another; the entry it inserted had itself been evicted before.
C3_Witness ==
    /\ ret.fn = "text" /\ ret.kind = "ok" /\ ~ret.hit
    /\ ret.prev # {}
    /\ Len(text_cache) = TextCacheSize
    /\ Len(used.text) > TextCacheSize

----------------------------------------------------------------------------
(* ninepatch: claims C1, C4, C5, C6, C9, C10                               *)

\* The corner size and the valid target sizes, as the claims define them.
cw(k) == k[1].w \div 3

ch(k) == k[1].h \div 3

Valid(k) ==
    /\ k[1].w >= 3 /\ k[1].h >= 3
    /\ k[2][3] >= 2 * cw(k) /\ k[2][4] >= 2 * ch(k)

TooSmall(k) ==
    /\ k[2][3] >= 0 /\ k[2][4] >= 0
    /\ k[2][3] < 2 * cw(k) \/ k[2][4] < 2 * ch(k)

InRect(p, r) ==
    /\ r[1] <= p[1] /\ p[1] < r[1] + r[3]
    /\ r[2] <= p[2] /\ p[2] < r[2] + r[4]

\* Two calls with the same source object and the same target size.
SameSourceAndSize(k1, k2) ==
    k1[1] = k2[1] /\ k1[2][3] = k2[2][3] /\ k1[2][4] = k2[2][4]

\* What earlier successful calls with the source and size of k returned.
Prior(k) ==
    UNION {hist.ninepatch[k2] :
             k2 \in {x \in DOMAIN hist.ninepatch : SameSourceAndSize(x, k)}}

\* C1, as stated: a call with the source and the size of an earlier call
\* returns the object that earlier call computed and computes nothing,
\* whatever was called in between and wherever the rect lies.
C1_NeverRecomputed ==
    [][(ret'.fn = "ninepatch" /\ ret'.kind = "ok" /\ Prior(ret'.key) # {}) =>
            ret'.hit /\ ret'.val \in Prior(ret'.key)]_vars

\* C1, amended: the cache is keyed on the source object and the whole rect
\* tuple (x, y, w, h) and keeps the NinepatchCacheSize most recently used keys.
\* A call whose key is among them returns the stored object and computes
\* nothing; any other call computes a new object.
C1_CachedWhileRecent ==
    [][(ret'.fn = "ninepatch" /\ ret'.kind = "ok") =>
            LET recent == Take(used.ninepatch, NinepatchCacheSize)
            IN  /\ Len(ninepatch_cache') <= NinepatchCacheSize
                /\ IF \E i \in 1..Len(recent) : recent[i] = ret'.key
                   THEN /\ ret'.hit
                        /\ ret'.val \in Last("ninepatch", ret'.key)
                        /\ trace' = NoTrace
                        /\ calls' = calls
                   ELSE /\ ~ret'.hit
                        /\ trace' # NoTrace
                        /\ ret'.val \notin Prior(ret'.key)
                        /\ Get(calls'.ninepatch, ret'.key, 0) = Count("ninepatch", ret'.key) + 1
      ]_vars

\* A call has just recomputed a result it had computed before and lost to
\* eviction, and a call with the same source and size at another position
\* has an object of its own.
C1_Witness ==
    /\ ret.fn = "ninepatch" /\ ret.kind = "ok" /\ ~ret.hit
    /\ ret.prev # {}
    /\ \E k2 \in DOMAIN hist.ninepatch :
          /\ k2 # ret.key
          /\ SameSourceAndSize(k2, ret.key)
          /\ hist.ninepatch[k2] # {ret.val}

\* C4: for a source of at least 3x3 and a valid target size (w, h), the
\* surface ninepatch returns is exactly w pixels wide and h pixels high.
C4_OutputSize ==
    (ret.fn = "ninepatch" /\ Valid(ret.key)) =>
        /\ ret.kind = "ok"
        /\ ret.val.w = ret.key[2][3]
        /\ ret.val.h = ret.key[2][4]
        /\ DOMAIN ret.val.px = Area(ret.key[2][3], ret.key[2][4])

\* A computed result that is wider than high, with a centre to scale.
C4_Witness ==
    /\ ret.fn = "ninepatch" /\ ret.kind = "ok" /\ ~ret.hit
    /\ Valid(ret.key)
    /\ ret.key[2][3] # ret.key[2][4]
    /\ ret.key[2][3] > 2 * cw(ret.key)
    /\ ret.key[2][4] > 2 * ch(ret.key)

\* The four corner blocks of a surface of size (w, h), each cw x ch, as
\* pixels by block and offset.
CornerBlocks(px, w, h, bw, bh, right, bottom) ==
    [c \in {"tl", "tr", "bl", "br"} |->
        [p \in Area(bw, bh) |->
            px[<<(IF c \in {"tr", "br"} THEN right ELSE 0) + p[1],
                 (IF c \in {"bl", "br"} THEN bottom ELSE 0) + p[2]>>]]]

\* The corner blocks of the result of call k, at the corners of the output.
ResultCorners(k, obj) ==
    CornerBlocks(obj.px, obj.w, obj.h, cw(k), ch(k), obj.w - cw(k), obj.h - ch(k))

\* The corner regions of the source: the cells (0,0), (2,0), (0,2), (2,2) of
\* its 3x3 grid of cw x ch cells.
SourceCorners(k) ==
    CornerBlocks(Pixels(k[1]).px, k[1].w, k[1].h, cw(k), ch(k), 2 * cw(k), 2 * ch(k))

\* C5: for every valid target size, each corner block of the output holds the
\* pixels of the corresponding corner region of the source, unscaled, after
\* all nine blits; so the corner blocks of two results of one source agree.
C5_CornersExact ==
    /\ \A i \in 1..Len(ninepatch_cache) :
          Valid(ninepatch_cache[i][1]) =>
              ResultCorners(ninepatch_cache[i][1], ninepatch_cache[i][2])
                  = SourceCorners(ninepatch_cache[i][1])
    /\ \A i, j \in 1..Len(ninepatch_cache) :
          (/\ ninepatch_cache[i][1][1] = ninepatch_cache[j][1][1]
           /\ Valid(ninepatch_cache[i][1]) /\ Valid(ninepatch_cache[j][1])) =>
              ResultCorners(ninepatch_cache[i][1], ninepatch_cache[i][2])
                  = ResultCorners(ninepatch_cache[j][1], ninepatch_cache[j][2])

\* The cache holds the results of one source for two target sizes, one of
\* them with edges and a centre that were scaled.
C5_Witness ==
    /\ Len(ninepatch_cache) = 2
    /\ ninepatch_cache[1][1][1] = ninepatch_cache[2][1][1]
    /\ ninepatch_cache[1][1][2] # ninepatch_cache[2][1][2]
    /\ ninepatch_cache[1][1][2][3] > 2 * cw(ninepatch_cache[1][1])
    /\ ninepatch_cache[1][1][2][4] > 2 * ch(ninepatch_cache[1][1])

\* C6: the nine regions cover every pixel of the source: the right column of
\* regions reaches the right edge and the bottom row the bottom edge, also
\* when the width or the height is no multiple of 3.
C6_RegionsCoverSource ==
    (ret.fn = "ninepatch" /\ ret.kind = "ok" /\ ~ret.hit) =>
        /\ \A p \in Area(ret.key[1].w, ret.key[1].h) :
              \E i \in 1..9 : InRect(p, trace.regions[i])
        /\ \A i \in {3, 6, 9} :
              trace.regions[i][1] + trace.regions[i][3] = ret.key[1].w
        /\ \A i \in {7, 8, 9} :
              trace.regions[i][2] + trace.regions[i][4] = ret.key[1].h

\* C9: for every valid target size the nine rectangles blitted into have the
\* sizes of four corners, four edges and a centre, lie inside the output, are
\* pairwise disjoint, and cover every pixel of the output exactly once.
C9_BlitsPartitionOutput ==
    (ret.fn = "ninepatch" /\ ~ret.hit /\ Valid(ret.key)) =>
        LET w == ret.key[2][3]
            h == ret.key[2][4]
            bw == cw(ret.key)
            bh == ch(ret.key)
            b == trace.blits
        IN  /\ DOMAIN b = 1..9
            /\ \A i \in {1, 3, 7, 9} : b[i][3] = bw /\ b[i][4] = bh
            /\ \A i \in {2, 8} : b[i][3] = w - 2 * bw /\ b[i][4] = bh
            /\ \A i \in {4, 6} : b[i][3] = bw /\ b[i][4] = h - 2 * bh
            /\ b[5][3] = w - 2 * bw /\ b[5][4] = h - 2 * bh
            /\ \A i \in 1..9 :
                  /\ b[i][1] >= 0 /\ b[i][2] >= 0
                  /\ b[i][1] + b[i][3] <= w /\ b[i][2] + b[i][4] <= h
            /\ \A i, j \in 1..9 :
                  i # j => ~\E p \in Area(w, h) : InRect(p, b[i]) /\ InRect(p, b[j])
            /\ \A p \in Area(w, h) :
                  Cardinality({i \in 1..9 : InRect(p, b[i])}) = 1

\* A computed result whose edges and centre are not empty.
C9_Witness ==
    /\ ret.fn = "ninepatch" /\ ret.kind = "ok" /\ ~ret.hit
    /\ Valid(ret.key)
    /\ DOMAIN trace.blits = 1..9
    /\ trace.blits[5][3] > 0 /\ trace.blits[5][4] > 0

\* C10: a target smaller than twice the corner size is neither rejected up
\* front nor clamped: the body asks pygame for a scale to the negative width
\* w - 2*cw or height h - 2*ch, the call fails, and the cache never holds a
\* result for such a call.
C10_NegativeScaleRequest ==
    /\ (ret.fn = "ninepatch" /\ TooSmall(ret.key)) =>
          /\ ret.kind = "raise"
          /\ ~ret.hit
          /\ trace.size = <<ret.key[2][3], ret.key[2][4]>>
          /\ \E i \in DOMAIN trace.scales :
                \/ /\ trace.scales[i][1] < 0
                   /\ trace.scales[i][1] = ret.key[2][3] - 2 * cw(ret.key)
                \/ /\ trace.scales[i][2] < 0
                   /\ trace.scales[i][2] = ret.key[2][4] - 2 * ch(ret.key)
          /\ ret.key \notin Keys(ninepatch_cache)
    /\ \A i \in 1..Len(ninepatch_cache) : ~TooSmall(ninepatch_cache[i][1])

\* A call with a target too low for the corners has just failed, after the
\* top row was blitted, while the cache holds earlier results.
C10_Witness ==
    /\ ret.fn = "ninepatch" /\ ret.kind = "raise"
    /\ TooSmall(ret.key)
    /\ ret.key[2][3] >= 2 * cw(ret.key)
    /\ DOMAIN trace.blits = 1..3
    /\ ninepatch_cache # <<>>

----------------------------------------------------------------------------
(* blit_centered: claim C7                                                 *)

\* rect.centerx and rect.centery of the tuple (x, y, w, h).
CenterX(r) == r[1] + r[3] \div 2

CenterY(r) == r[2] + r[4] \div 2

\* C7: blit_centered draws the image unscaled with its top-left corner at
\* (rect.centerx - image_w // 2, rect.centery - image_h // 2), so that the
\* centre of the image is the centre of the rectangle; a 10x10 image on a
\* rectangle centred at (50, 50) lands at (45, 45); the image and the
\* rectangle are left as they were.
C7_CenteredBlit ==
    ret.fn = "blit_centered" =>
        LET image == ret.key[1]
            r == ret.key[2]
            x == CenterX(r) - image.w \div 2
            y == CenterY(r) - image.h \div 2
            d == trace.blits[1]
        IN  /\ d = <<x, y, image.w, image.h>>
            /\ d[1] + image.w \div 2 = CenterX(r)
            /\ d[2] + image.h \div 2 = CenterY(r)
            /\ (image.w = 10 /\ image.h = 10 /\ CenterX(r) = 50 /\ CenterY(r) = 50)
                  => d[1] = 45 /\ d[2] = 45
            /\ \A p \in Area(ScreenW, ScreenH) :
                  InRect(p, d) => screen.px[p] = <<image.key[1], p[1] - x, p[2] - y>>
            /\ ret.val = ret.key

\* The 10x10 image has just been drawn on the rectangle centred at (50, 50).
C7_Witness ==
    /\ ret.fn = "blit_centered"
    /\ ret.key[1].w = 10 /\ ret.key[1].h = 10
    /\ CenterX(ret.key[2]) = 50 /\ CenterY(ret.key[2]) = 50
    /\ trace.blits[1][1] = 45 /\ trace.blits[1][2] = 45

====
